---- MODULE Spec2Model ----
(***************************************************************************)
(* The date-selection state machine of the calendar slicer visual          *)
(* (src/src/visual.ts, class Visual).                                      *)
(*                                                                         *)
(* A Date is represented by its time value (milliseconds since the UTC     *)
(* epoch); a day key is the time value of a UTC midnight.  JavaScript Sets *)
(* are modelled as sets (insertion order is not modelled), arrays as       *)
(* sequences, strings as sequences of one-character strings.  The write-   *)
(* only map identitiesByKey and the styling settings are not modelled.     *)
(* The header is taken to be shown with its Clear button (the defaults of  *)
(* header.showHeader and header.showClear).                                *)
(***************************************************************************)
EXTENDS Integers, Sequences, FiniteSets

VARIABLES
    viewMode,           \* 'day' | 'month' | 'year'
    cursorYear,
    cursorMonth,
    selectedKeys,       \* Set<number>
    lastClickedKey,     \* number | null
    selectionSettings,  \* {multiSelect, rangeSelect, stickySelection}
    selectableKeys,     \* Set<number>
    minDataKey,
    maxDataKey,
    filterTarget,       \* {table, column} | null
    hostCalls,          \* the host.applyJsonFilter calls made by the last event
    category,           \* categories[0] of the dataset of the last update
    weekLabel,          \* the last date given to getISOWeek and its result
    lastEvent,          \* the last event handled, with its inputs
    pre                 \* selectedKeys and lastClickedKey before the last event

vars == <<viewMode, cursorYear, cursorMonth, selectedKeys, lastClickedKey,
          selectionSettings, selectableKeys, minDataKey, maxDataKey,
          filterTarget, hostCalls, category, weekLabel, lastEvent, pre>>

-----------------------------------------------------------------------------
(* Bounds of the model *)

\* days 0..MaxDay after the epoch are the calendar days of the model
MaxDay == 2

\* the longest category column of a dataset update
MaxValues == 3

\* the view cursor is followed over Today.year - YearSpan .. Today.year + YearSpan
YearSpan == 12

\* shiftMonth and shiftYear are applied to the deltas -MaxDelta..MaxDelta
MaxDelta == 13

\* the longest queryName
MaxQueryName == 3

\* the longest column of strings
MaxIsoRows == 2

\* getISOWeek is applied to the days of WeekYears years from WeekFirstYear
WeekFirstYear == 2015

WeekYears == 12

-----------------------------------------------------------------------------
(* Values *)

\* null where a key (a time value) is expected; no key is negative
Null == -1

\* the null filterTarget; the table of a resolved target is never empty
NoTarget == [table |-> <<>>, column |-> <<>>]

\* the JavaScript values a settings flag is read from
Undefined == "undefined"
JsTrue == "true"
JsFalse == "false"

MsPerDay == 86400000

\* a time of day carried by the Date values of a dataset (13:00 UTC)
TimeOfDay == 46800000

\* "today" as read from the clock by new Date()
Today == [year |-> 1970, month |-> 0]

Days == 0..MaxDay

DayKey(d) == d * MsPerDay

DayKeys == {DayKey(d) : d \in Days}

RECURSIVE SeqToSet(_)
SeqToSet(s) == IF s = <<>> THEN {} ELSE {Head(s)} \cup SeqToSet(Tail(s))

\* Date.UTC(date.getUTCFullYear(), date.getUTCMonth(), date.getUTCDate()):
\* the UTC midnight of the date's UTC calendar day
atUTC(t) == (t \div MsPerDay) * MsPerDay

\* Date.UTC(y, m, d+1) of a date's UTC fields: the next UTC midnight
NextDay(t) == atUTC(t) + MsPerDay

-----------------------------------------------------------------------------
(* Dates *)

IsLeapYear(y) == (y % 4 = 0 /\ y % 100 # 0) \/ y % 400 = 0

\* the days of month m (0..11) of year y
DaysInMonth(y, m) ==
    IF m = 1 THEN (IF IsLeapYear(y) THEN 29 ELSE 28)
    ELSE IF m \in {3, 5, 8, 10} THEN 30 ELSE 31

\* the leap years before year y
LeapYearsBefore(y) == ((y - 1) \div 4) - ((y - 1) \div 100) + ((y - 1) \div 400)

\* the days from the epoch to January 1 of year y
DaysBeforeYear(y) ==
    365 * (y - 1970) + LeapYearsBefore(y) - LeapYearsBefore(1970)

\* the days from January 1 of year y to the first of month m (0..11)
RECURSIVE DaysBeforeMonth(_, _)
DaysBeforeMonth(y, m) ==
    IF m = 0 THEN 0 ELSE DaysBeforeMonth(y, m - 1) + DaysInMonth(y, m - 1)

\* the day number of day date of month 0 of year y, carried over month
\* months and on to the date
CarriedDayNumber(y, month, date) ==
    DaysBeforeYear(y + (month \div 12)) - 1 + date
      + DaysBeforeMonth(y + (month \div 12), month % 12)

\* the day number, counted from the epoch, of Date.UTC(year, month, date):
\* a year in 0..99 is taken as 1900 + year, and a month outside 0..11 or a
\* date outside the month carries over
UTCDayNumber(year, month, date) ==
    CarriedDayNumber(IF 0 <= year /\ year <= 99 THEN 1900 + year ELSE year,
                     month, date)

\* Date.UTC(year, month, date) in milliseconds
DateUTC(year, month, date) == UTCDayNumber(year, month, date) * MsPerDay

\* getUTCFullYear() of a Date on day number n
UTCFullYear(n) ==
    LET guess == 1970 + (n \div 366)
    IN  CHOOSE y \in (guess - 1)..(guess + 2) :
            DaysBeforeYear(y) <= n /\ n < DaysBeforeYear(y + 1)

\* getUTCDay() of a Date on day number n: 0 is Sunday; the epoch was a
\* Thursday
UTCDay(n) == (n + 4) % 7

\* no week number computed yet
NoLabel == [day |-> 0, week |-> Null]

\* getISOWeek on a Sunday without the "|| 7": the week starts on Sunday
MutISOWeekSundayFirst(n) ==
    LET day       == UTCDay(n)
        date      == n + 4 - day
        yearStart == UTCDayNumber(UTCFullYear(date), 0, 1)
        diffDays  == (date - yearStart) + 1
    IN  (diffDays + 6) \div 7

\* getISOWeek(d) of a Date on day number n. The Dates of the function are
\* UTC midnights and are held as day numbers, so the division of their
\* difference by 86400000 is the difference of the day numbers.
GetISOWeek(n) ==
    LET day       == IF UTCDay(n) = 0 THEN 7 ELSE UTCDay(n)
        date      == n + 4 - day
        yearStart == UTCDayNumber(UTCFullYear(date), 0, 1)
        diffDays  == (date - yearStart) + 1
    IN  (diffDays + 6) \div 7

-----------------------------------------------------------------------------
(* Strings *)

Digits == <<"0", "1", "2", "3", "4", "5", "6", "7", "8", "9">>

IsDigit(c) == \E i \in 1..10 : Digits[i] = c

DigitValue(c) == (CHOOSE i \in 1..10 : Digits[i] = c) - 1

\* parseInt(s, 10) of a string of digits
RECURSIVE ParseInt(_)
ParseInt(s) ==
    IF s = <<>> THEN 0
    ELSE 10 * ParseInt(SubSeq(s, 1, Len(s) - 1)) + DigitValue(s[Len(s)])

\* the string without the white space \s* matches at its two ends
RECURSIVE Trim(_)
Trim(s) ==
    IF s = <<>> THEN s
    ELSE IF Head(s) = " " THEN Trim(Tail(s))
    ELSE IF s[Len(s)] = " " THEN Trim(SubSeq(s, 1, Len(s) - 1))
    ELSE s

\* the three groups of /^(\d{4})\-(\d{2})\-(\d{2})$/ in b, or <<>>
IsoGroups(b) ==
    IF /\ Len(b) = 10
       /\ \A i \in {1, 2, 3, 4, 6, 7, 9, 10} : IsDigit(b[i])
       /\ b[5] = "-"
       /\ b[8] = "-"
    THEN <<SubSeq(b, 1, 4), SubSeq(b, 6, 7), SubSeq(b, 9, 10)>>
    ELSE <<>>

\* /^\s*(\d{4})\-(\d{2})\-(\d{2})\s*$/.exec(s): the three groups, or <<>>
IsoExec(s) == IsoGroups(Trim(s))

\* the time value of the Date made of the groups m, or Null without a match
DateOfGroups(m) ==
    IF m = <<>> THEN Null
    ELSE DateUTC(ParseInt(m[1]), ParseInt(m[2]) - 1, ParseInt(m[3]))

\* parseISODate(s): the time value of the Date returned, or Null
ParseISODate(s) == IF s = <<>> THEN Null ELSE DateOfGroups(IsoExec(s))

\* new Date(v) of a string that holds no digit: an Invalid Date
NewDateOfText(s) == Null

-----------------------------------------------------------------------------
(* queryName parsing *)

\* String.prototype.lastIndexOf(ch): 0-based, -1 when absent
LastIndexOf(s, ch) ==
    LET hits == {i \in 1..Len(s) : s[i] = ch}
    IN  IF hits = {} THEN -1
        ELSE (CHOOSE i \in hits : \A j \in hits : j <= i) - 1

\* String.prototype.substring(from, to), 0-based, to exclusive
Substring(s, from, to) == SubSeq(s, from + 1, to)

\* a queryName that is not a string
NotAString == <<"undefined">>

\* the filter target taking a '.' at index 0 for a separator too
MutFilterTargetDotAtStart(qn) ==
    IF qn = NotAString THEN NoTarget
    ELSE LET dot == LastIndexOf(qn, ".")
         IN  IF dot >= 0
             THEN [table  |-> Substring(qn, 0, dot),
                   column |-> Substring(qn, dot + 1, Len(qn))]
             ELSE NoTarget

FilterTargetOf(qn) ==
    IF qn = NotAString THEN NoTarget
    ELSE LET dot == LastIndexOf(qn, ".")
         IN  IF dot > 0
             THEN [table  |-> Substring(qn, 0, dot),
                   column |-> Substring(qn, dot + 1, Len(qn))]
             ELSE NoTarget

-----------------------------------------------------------------------------
(* Settings *)

\* one field of readSettings: (x !== undefined) ? !!x : old
ReadFlag(x, old) == IF x # Undefined THEN x = JsTrue ELSE old

ReadSettings(sel, old) ==
    [multiSelect     |-> ReadFlag(sel.multiSelect, old.multiSelect),
     rangeSelect     |-> ReadFlag(sel.rangeSelect, old.rangeSelect),
     stickySelection |-> ReadFlag(sel.stickySelection, old.stickySelection)]

-----------------------------------------------------------------------------
(* loadData *)

\* the Date a string is read as, tryISO being parseISODate's result
ParseString(tryISO, s) ==
    IF tryISO # Null THEN tryISO ELSE NewDateOfText(s)

\* the Date a category value is read as, or Null when the row is skipped
ParseValue(v) ==
    IF v.kind = "null" THEN Null
    ELSE IF v.kind = "date" THEN atUTC(v.t)
    ELSE IF v.kind = "string" THEN ParseString(ParseISODate(v.s), v.s)
    ELSE Null

\* the key of row i, or Null
RowKey(values, i) ==
    LET d == ParseValue(values[i])
    IN  IF d = Null THEN Null ELSE atUTC(d)

\* the loop of loadData comparing maxDataKey the wrong way round
RECURSIVE MutLoadRowsMaxSlip(_, _)
MutLoadRowsMaxSlip(values, n) ==
    IF n = 0 THEN [keys |-> {}, min |-> Null, max |-> Null]
    ELSE LET acc == MutLoadRowsMaxSlip(values, n - 1)
             key == RowKey(values, n)
         IN  IF key = Null THEN acc
             ELSE [keys |-> acc.keys \cup {key},
                   min  |-> IF acc.min = Null \/ key < acc.min THEN key ELSE acc.min,
                   max  |-> IF acc.max = Null \/ key < acc.max THEN key ELSE acc.max]

\* the loop of loadData over rows 1..n: [keys, min, max]
RECURSIVE LoadRows(_, _)
LoadRows(values, n) ==
    IF n = 0 THEN [keys |-> {}, min |-> Null, max |-> Null]
    ELSE LET acc == LoadRows(values, n - 1)
             key == RowKey(values, n)
         IN  IF key = Null THEN acc
             ELSE [keys |-> acc.keys \cup {key},
                   min  |-> IF acc.min = Null \/ key < acc.min THEN key ELSE acc.min,
                   max  |-> IF acc.max = Null \/ key > acc.max THEN key ELSE acc.max]

-----------------------------------------------------------------------------
(* Selection and filtering *)

NoCalls == <<>>

\* the null passed to applyJsonFilter to remove the filter
NullFilter == [target |-> NoTarget, operator |-> "null", values |-> {}]

InFilter(target, keys) ==
    [target |-> target, operator |-> "In", values |-> keys]

HostCall(filter, action) == [filter |-> filter, action |-> action]

\* applyFilterForKeys sending the keys it was passed instead of selectedKeys
MutApplySendsPassedKeys(sel, target, keys, additive) ==
    IF target = NoTarget THEN [selectedKeys |-> sel, calls |-> NoCalls]
    ELSE LET sel2 == IF ~additive THEN SeqToSet(keys)
                     ELSE sel \cup SeqToSet(keys)
         IN  [selectedKeys |-> sel2,
              calls |-> <<HostCall(InFilter(target, SeqToSet(keys)), "merge")>>]

\* applyFilterForKeys without its filterTarget check
MutApplyWithoutTargetCheck(sel, target, keys, additive) ==
    LET sel2 == IF ~additive THEN SeqToSet(keys) ELSE sel \cup SeqToSet(keys)
    IN  [selectedKeys |-> sel2,
         calls |-> <<HostCall(InFilter(target, sel2), "merge")>>]

\* applyFilterForKeys choosing the host's action by the additive flag
MutApplyModeByAdditive(sel, target, keys, additive) ==
    IF target = NoTarget THEN [selectedKeys |-> sel, calls |-> NoCalls]
    ELSE LET sel2 == IF ~additive THEN SeqToSet(keys)
                     ELSE sel \cup SeqToSet(keys)
         IN  [selectedKeys |-> sel2,
              calls |-> <<HostCall(InFilter(target, sel2),
                                   IF additive THEN "merge" ELSE "replace")>>]

\* applyFilterForKeys(keys, additive) on selection sel: [selectedKeys, calls]
ApplyFilterForKeys(sel, target, keys, additive) ==
    IF target = NoTarget THEN [selectedKeys |-> sel, calls |-> NoCalls]
    ELSE LET sel2 == IF ~additive THEN SeqToSet(keys)
                     ELSE sel \cup SeqToSet(keys)
         IN  [selectedKeys |-> sel2,
              calls |-> <<HostCall(InFilter(target, sel2), "merge")>>]

\* the day-by-day walk of the range branch from cursor to endDate
RECURSIVE RangeWalk(_, _, _)
RangeWalk(cursor, endDate, selectable) ==
    IF atUTC(cursor) <= atUTC(endDate)
    THEN LET k == atUTC(cursor)
         IN  (IF k \in selectable THEN <<k>> ELSE <<>>)
             \o RangeWalk(NextDay(cursor), endDate, selectable)
    ELSE <<>>

SetToArray(s) ==
    CHOOSE q \in [1..Cardinality(s) -> s] : SeqToSet(q) = s

\* rangeKey without the test of lastClickedKey
MutRangeKeyWithoutAnchor(settings, ev, last) ==
    settings.rangeSelect /\ ev.shiftKey

MultiKey(settings, ev) == settings.multiSelect /\ (ev.ctrlKey \/ ev.metaKey)

RangeKey(settings, ev, last) ==
    settings.rangeSelect /\ ev.shiftKey /\ last # Null

Branch(settings, ev, last) ==
    IF RangeKey(settings, ev, last) THEN "range"
    ELSE IF MultiKey(settings, ev) THEN "multi"
    ELSE "single"

ClickResult(r, key) ==
    [selectedKeys |-> r.selectedKeys, lastClickedKey |-> key, calls |-> r.calls]

\* the range branch leaving the anchor at the start of the interval
MutRangeAnchorAtStart(sel, last, selectable, target, key) ==
    LET start == IF key < last THEN key ELSE last
        end   == IF key < last THEN last ELSE key
        keys  == RangeWalk(start, end, selectable)
    IN  ClickResult(ApplyFilterForKeys(sel, target, keys, TRUE), start)

\* the range branch of handleClickDate
RangeBranch(sel, last, selectable, target, key) ==
    LET start == IF key < last THEN key ELSE last
        end   == IF key < last THEN last ELSE key
        keys  == RangeWalk(start, end, selectable)
    IN  ClickResult(ApplyFilterForKeys(sel, target, keys, TRUE), key)

\* the multi branch adding the key without ever removing it
MutMultiAddOnly(sel, target, key) ==
    LET added == sel \cup {key}
    IN  ClickResult(
            ApplyFilterForKeys(added, target, SetToArray(added), TRUE), key)

\* the multi branch of handleClickDate
MultiBranch(sel, target, key) ==
    LET toggled == IF key \in sel THEN sel \ {key} ELSE sel \cup {key}
    IN  ClickResult(
            ApplyFilterForKeys(toggled, target, SetToArray(toggled), TRUE), key)

\* the single branch without selectedKeys.clear()
MutSingleKeepsPrior(sel, target, key) ==
    ClickResult(ApplyFilterForKeys(sel \cup {key}, target, <<key>>, FALSE), key)

\* the single branch of handleClickDate
SingleBranch(sel, target, key) ==
    ClickResult(ApplyFilterForKeys({key}, target, <<key>>, FALSE), key)

\* handleClickDate(key, ev): [selectedKeys, lastClickedKey, calls]
HandleClickDate(sel, last, settings, selectable, target, key, ev) ==
    IF RangeKey(settings, ev, last)
    THEN RangeBranch(sel, last, selectable, target, key)
    ELSE IF MultiKey(settings, ev)
    THEN MultiBranch(sel, target, key)
    ELSE SingleBranch(sel, target, key)

\* clearSelection sending an "In" filter with no values
MutClearEmptyIn(target) ==
    [selectedKeys |-> {}, lastClickedKey |-> Null,
     calls |-> IF target # NoTarget
               THEN <<HostCall(InFilter(target, {}), "merge")>>
               ELSE NoCalls]

\* clearSelection(): [selectedKeys, lastClickedKey, calls]
ClearSelection(target) ==
    [selectedKeys |-> {}, lastClickedKey |-> Null,
     calls |-> IF target # NoTarget THEN <<HostCall(NullFilter, "remove")>>
               ELSE NoCalls]

-----------------------------------------------------------------------------
(* Inputs *)

NoEvent == [ctrlKey |-> FALSE, metaKey |-> FALSE, shiftKey |-> FALSE]

Mouse(ctrl, meta, shift) ==
    [ctrlKey |-> ctrl, metaKey |-> meta, shiftKey |-> shift]

\* plain, ctrl, shift and cmd+shift clicks
MouseEvents ==
    {Mouse(FALSE, FALSE, FALSE), Mouse(TRUE, FALSE, FALSE),
     Mouse(FALSE, FALSE, TRUE), Mouse(FALSE, TRUE, TRUE)}

\* an event: its handler, the clicked key, the modifier keys, and arg, the
\* number the handler is given (a delta, a month, a year)
Event(op, key, ev) == [op |-> op, key |-> key, ev |-> ev, arg |-> 0]

ViewEvent(op, arg) == [op |-> op, key |-> Null, ev |-> NoEvent, arg |-> arg]

SelObject(multi, range, sticky) ==
    [multiSelect |-> multi, rangeSelect |-> range, stickySelection |-> sticky]

\* the selectionSettings object absent, or with one option set
NoSelObject == SelObject(Undefined, Undefined, Undefined)

SelObjects ==
    {NoSelObject}
    \cup {SelObject(b, Undefined, Undefined) : b \in {JsTrue, JsFalse}}
    \cup {SelObject(Undefined, b, Undefined) : b \in {JsTrue, JsFalse}}

StickyObjects ==
    {SelObject(Undefined, Undefined, b) : b \in {JsTrue, JsFalse}}

DateValue(t) == [kind |-> "date", t |-> t, s |-> <<>>]

\* a value no Date can be made of
JunkValue == [kind |-> "junk", t |-> 0, s |-> <<>>]

NullValue == [kind |-> "null", t |-> 0, s |-> <<>>]

\* a string, as the sequence of its characters
StringValue(s) == [kind |-> "string", t |-> 0, s |-> s]

DateValues == {DateValue(DayKey(d) + TimeOfDay) : d \in Days}

RawValues == {NullValue, JunkValue} \cup DateValues

QueryNames == {<<"T", ".", "d">>, <<"d">>}

NoCategories == [queryName |-> NotAString, values |-> <<>>, present |-> FALSE]

Category(qn, values) == [queryName |-> qn, values |-> values, present |-> TRUE]

\* a category column holds the distinct values of the field, in order
Ascending(vs) == \A i \in 1..(Len(vs) - 1) : vs[i].t < vs[i + 1].t

DateColumns ==
    {vs \in UNION {[1..n -> DateValues] : n \in 0..MaxValues} : Ascending(vs)}

DataView(sel, cat) == [sel |-> sel, cat |-> cat]

DataViews ==
    {DataView(s, NoCategories) : s \in SelObjects}
    \cup {DataView(s, Category(qn, vs)) :
            s \in SelObjects, qn \in QueryNames, vs \in DateColumns}

-----------------------------------------------------------------------------
(* State machine *)

\* the fields of a Visual after its constructor
Constructed ==
    /\ viewMode = "day"
    /\ cursorYear = Today.year
    /\ cursorMonth = Today.month
    /\ selectedKeys = {}
    /\ lastClickedKey = Null
    /\ selectionSettings =
         [multiSelect |-> TRUE, rangeSelect |-> TRUE, stickySelection |-> TRUE]
    /\ selectableKeys = {}
    /\ minDataKey = Null
    /\ maxDataKey = Null
    /\ filterTarget = NoTarget
    /\ hostCalls = NoCalls
    /\ category = NoCategories
    /\ lastEvent = Event("init", Null, NoEvent)
    /\ pre = [selectedKeys |-> {}, lastClickedKey |-> Null]

Init ==
    /\ Constructed
    /\ weekLabel = NoLabel

Snapshot == [selectedKeys |-> selectedKeys, lastClickedKey |-> lastClickedKey]

Cursor == [year |-> cursorYear, month |-> cursorMonth]

\* loadData resetting the cursor whenever no key was loaded
MutLoadDataResetsWhenNoKeys(cat, cursor) ==
    IF ~cat.present
    THEN [keys |-> {}, min |-> Null, max |-> Null, target |-> NoTarget,
          cursor |-> Today]
    ELSE LET rows == LoadRows(cat.values, Len(cat.values))
         IN  [keys |-> rows.keys, min |-> rows.min, max |-> rows.max,
              target |-> FilterTargetOf(cat.queryName),
              cursor |-> IF rows.keys = {} THEN Today ELSE cursor]

\* loadData(dv) with the view cursor at cursor: [keys, min, max, target, cursor]
LoadData(cat, cursor) ==
    IF ~cat.present
    THEN [keys |-> {}, min |-> Null, max |-> Null, target |-> NoTarget,
          cursor |-> Today]
    ELSE LET rows == LoadRows(cat.values, Len(cat.values))
         IN  [keys |-> rows.keys, min |-> rows.min, max |-> rows.max,
              target |-> FilterTargetOf(cat.queryName), cursor |-> cursor]

\* update without selectableKeys.clear(): the old keys stay
MutUpdateKeepsKeys(dv) ==
    /\ selectionSettings' = ReadSettings(dv.sel, selectionSettings)
    /\ LET r == LoadData(dv.cat, Cursor)
       IN  /\ selectableKeys' = selectableKeys \cup r.keys
           /\ minDataKey' = r.min
           /\ maxDataKey' = r.max
           /\ filterTarget' = r.target
           /\ cursorYear' = r.cursor.year
           /\ cursorMonth' = r.cursor.month
    /\ hostCalls' = NoCalls
    /\ category' = dv.cat
    /\ lastEvent' = Event("update", Null, NoEvent)
    /\ pre' = Snapshot
    /\ UNCHANGED <<viewMode, selectedKeys, lastClickedKey, weekLabel>>

\* update(options): readSettings, loadData, applyTheme, render
Update(dv) ==
    /\ selectionSettings' = ReadSettings(dv.sel, selectionSettings)
    /\ LET r == LoadData(dv.cat, Cursor)
       IN  /\ selectableKeys' = r.keys
           /\ minDataKey' = r.min
           /\ maxDataKey' = r.max
           /\ filterTarget' = r.target
           /\ cursorYear' = r.cursor.year
           /\ cursorMonth' = r.cursor.month
    /\ hostCalls' = NoCalls
    /\ category' = dv.cat
    /\ lastEvent' = Event("update", Null, NoEvent)
    /\ pre' = Snapshot
    /\ UNCHANGED <<viewMode, selectedKeys, lastClickedKey, weekLabel>>

\* handleClickDate(key, ev) run on the widget's state
DoClick(key, ev) ==
    /\ LET r == HandleClickDate(selectedKeys, lastClickedKey, selectionSettings,
                                selectableKeys, filterTarget, key, ev)
       IN  /\ selectedKeys' = r.selectedKeys
           /\ lastClickedKey' = r.lastClickedKey
           /\ hostCalls' = r.calls
    /\ lastEvent' = Event("click", key, ev)
    /\ pre' = Snapshot
    /\ UNCHANGED <<viewMode, cursorYear, cursorMonth, selectionSettings,
                   selectableKeys, minDataKey, maxDataKey, filterTarget,
                   category, weekLabel>>

\* a click (or Enter/Space) on a day cell: only the cells of the day grid
\* whose date is in selectableKeys carry the handler
ClickDate(key, ev) ==
    /\ viewMode = "day"
    /\ key \in selectableKeys
    /\ DoClick(key, ev)

DoClear(op) ==
    /\ LET r == ClearSelection(filterTarget)
       IN  /\ selectedKeys' = r.selectedKeys
           /\ lastClickedKey' = r.lastClickedKey
           /\ hostCalls' = r.calls
    /\ lastEvent' = Event(op, Null, NoEvent)
    /\ pre' = Snapshot
    /\ UNCHANGED <<viewMode, cursorYear, cursorMonth, selectionSettings,
                   selectableKeys, minDataKey, maxDataKey, filterTarget,
                   category, weekLabel>>

\* the Clear button of the header
ClearClick == DoClear("clear")

\* a click on the root element itself, outside the header and the grid
RootClick ==
    /\ ~selectionSettings.stickySelection
    /\ DoClear("rootclick")

\* the mode cycle going from month straight back to day
MutNextModeSkipsYear(m) == IF m = "day" THEN "month" ELSE "day"

\* title.onclick and modeBtn.onclick: day -> month -> year -> day
NextMode(m) == IF m = "day" THEN "month" ELSE IF m = "month" THEN "year" ELSE "day"

ModeClick(op) ==
    /\ viewMode' = NextMode(viewMode)
    /\ hostCalls' = NoCalls
    /\ lastEvent' = Event(op, Null, NoEvent)
    /\ pre' = Snapshot
    /\ UNCHANGED <<cursorYear, cursorMonth, selectedKeys, lastClickedKey,
                   selectionSettings, selectableKeys, minDataKey, maxDataKey,
                   filterTarget, category, weekLabel>>

TitleClick == ModeClick("title")

ModeBtnClick == ModeClick("mode")

\* shiftMonth carrying at most one year, an if in place of each while
MutCarryOnce(m, y) ==
    IF m < 0 THEN [month |-> m + 12, year |-> y - 1]
    ELSE IF m > 11 THEN [month |-> m - 12, year |-> y + 1]
    ELSE [month |-> m, year |-> y]

\* the two while loops of shiftMonth carrying the month into the year
RECURSIVE CarryMonth(_, _)
CarryMonth(m, y) ==
    IF m < 0 THEN CarryMonth(m + 12, y - 1)
    ELSE IF m > 11 THEN CarryMonth(m - 12, y + 1)
    ELSE [month |-> m, year |-> y]

ShiftMonth(delta) == CarryMonth(cursorMonth + delta, cursorYear)

ShiftYear(delta) == [month |-> cursorMonth, year |-> cursorYear + delta]

InYearSpan(y) == Today.year - YearSpan <= y /\ y <= Today.year + YearSpan

\* a change of the view only: cursor and mode
ViewChange(ev, cursor, mode) ==
    /\ InYearSpan(cursor.year)
    /\ cursorYear' = cursor.year
    /\ cursorMonth' = cursor.month
    /\ viewMode' = mode
    /\ hostCalls' = NoCalls
    /\ lastEvent' = ev
    /\ pre' = Snapshot
    /\ UNCHANGED <<selectedKeys, lastClickedKey, selectionSettings,
                   selectableKeys, minDataKey, maxDataKey, filterTarget,
                   category, weekLabel>>

\* the delta prevBtn.onclick and nextBtn.onclick pass on; dir is -1 or 1
NavDelta(mode, dir) == IF mode = "year" THEN 12 * dir ELSE dir

\* prevBtn.onclick and nextBtn.onclick also clearing the selection
MutNavClearsSelection(op, dir) ==
    LET cursor == IF viewMode = "day" THEN ShiftMonth(NavDelta(viewMode, dir))
                  ELSE ShiftYear(NavDelta(viewMode, dir))
        r == ClearSelection(filterTarget)
    IN  /\ InYearSpan(cursor.year)
        /\ cursorYear' = cursor.year
        /\ cursorMonth' = cursor.month
        /\ selectedKeys' = r.selectedKeys
        /\ lastClickedKey' = r.lastClickedKey
        /\ hostCalls' = r.calls
        /\ lastEvent' = ViewEvent(op, NavDelta(viewMode, dir))
        /\ pre' = Snapshot
        /\ UNCHANGED <<viewMode, selectionSettings, selectableKeys,
                       minDataKey, maxDataKey, filterTarget, category, weekLabel>>

\* prevBtn.onclick and nextBtn.onclick; dir is -1 or 1
NavClick(op, dir) ==
    ViewChange(ViewEvent(op, NavDelta(viewMode, dir)),
               IF viewMode = "day" THEN ShiftMonth(NavDelta(viewMode, dir))
               ELSE ShiftYear(NavDelta(viewMode, dir)),
               viewMode)

PrevClick == NavClick("prev", -1)

NextClick == NavClick("next", 1)

\* shiftMonth(delta) and shiftYear(delta) as operations of their own
CallShiftMonth(delta) ==
    ViewChange(ViewEvent("shiftMonth", delta), ShiftMonth(delta), viewMode)

CallShiftYear(delta) ==
    ViewChange(ViewEvent("shiftYear", delta), ShiftYear(delta), viewMode)

\* a click on a cell of the month grid
MonthCellClick(m) ==
    /\ viewMode = "month"
    /\ ViewChange(ViewEvent("monthcell", m),
                  [month |-> m, year |-> cursorYear], "day")

\* Math.floor(cursorYear/12)*12
YearBase(y) == (y \div 12) * 12

\* a click on cell i of the year grid
YearCellClick(i) ==
    /\ viewMode = "year"
    /\ ViewChange(ViewEvent("yearcell", YearBase(cursorYear) + i),
                  [month |-> cursorMonth, year |-> YearBase(cursorYear) + i],
                  "month")

\* the datasets of DataViews that leave the settings alone
HandlerDataViews == {dv \in DataViews : dv.sel = NoSelObject}

\* update after a change of the data: the settings object is as it was
DataUpdate == \E dv \in HandlerDataViews : Update(dv)

\* update after a change in the format pane: the dataset is as it was
SettingsUpdate == \E s \in SelObjects : Update(DataView(s, category))

Next ==
    \/ DataUpdate
    \/ SettingsUpdate
    \/ \E key \in DayKeys, ev \in MouseEvents : ClickDate(key, ev)
    \/ ClearClick

\* the selection machine on the day grid: dataset updates, date clicks, Clear
Spec == Init /\ [][Next]_vars

NextHandler ==
    \/ \E dv \in HandlerDataViews : Update(dv)
    \/ \E key \in DayKeys, ev \in MouseEvents : DoClick(key, ev)
    \/ ClearClick

\* handleClickDate as an operation of its own: applied to every day key,
\* whether or not the grid would route a click on it
SpecHandler == Init /\ [][NextHandler]_vars

\* the datasets of the view machine: none, an empty column, a blank row,
\* one date
ViewDataViews ==
    {DataView(s, NoCategories) : s \in {NoSelObject} \cup StickyObjects}
    \cup {DataView(NoSelObject, Category(<<"T", ".", "d">>, vs)) :
            vs \in {<<>>, <<NullValue>>, <<DateValue(DayKey(0) + TimeOfDay)>>}}

NextView ==
    \/ \E dv \in ViewDataViews : Update(dv)
    \/ \E key \in DayKeys, ev \in MouseEvents : ClickDate(key, ev)
    \/ ClearClick
    \/ RootClick
    \/ TitleClick
    \/ ModeBtnClick
    \/ PrevClick
    \/ NextClick
    \/ \E m \in 0..11 : MonthCellClick(m)
    \/ \E i \in 0..11 : YearCellClick(i)

\* the whole widget: the view cursor and mode with the selection machine,
\* over the datasets of ViewDataViews
SpecView == Init /\ [][NextView]_vars

-----------------------------------------------------------------------------
(* Properties *)

Clicked == lastEvent.op = "click"

Cleared == lastEvent.op = "clear"

Updated == lastEvent.op = "update"

\* the branch the last click took (a click leaves the settings unchanged)
ClickBranch == Branch(selectionSettings, lastEvent.ev, pre.lastClickedKey)

Min(a, b) == IF a < b THEN a ELSE b

Max(a, b) == IF a < b THEN b ELSE a

\* the selectable keys of the closed interval between a and b
SelectableBetween(a, b) ==
    {k \in selectableKeys : Min(a, b) <= k /\ k <= Max(a, b)}

Toggle(s, k) == IF k \in s THEN s \ {k} ELSE s \cup {k}

ResolvedTarget == FilterTargetOf(<<"T", ".", "d">>)

\* C1: in every reachable state every selected key is a selectable key.
C1_SelectionContainment == selectedKeys \subseteq selectableKeys

\* C2: after a dataset update the selection is the prior selection without
\* the keys absent from the new selectable set, and if that removed a key
\* one replace-mode "In" request carrying the reconciled set was sent.
C2_ReconcileOnRebuild ==
    Updated =>
        /\ selectedKeys = pre.selectedKeys \cap selectableKeys
        /\ (pre.selectedKeys \ selectableKeys # {} /\ filterTarget # NoTarget)
             => hostCalls =
                  <<HostCall(InFilter(filterTarget, selectedKeys), "replace")>>

\* C3: a shift-click with rangeSelect on and an anchor a leaves the selection
\* equal to the prior selection united with the selectable keys between a
\* and the clicked key.
C3_RangeAdditivity ==
    (Clicked /\ ClickBranch = "range") =>
        selectedKeys = pre.selectedKeys
                         \cup SelectableBetween(pre.lastClickedKey, lastEvent.key)

\* C4: without a filter target a click or a clear leaves the same
\* selectedKeys and lastClickedKey as it would with a resolved target.
C4_LocalSelectionWithoutTarget ==
    (filterTarget = NoTarget /\ (Clicked \/ Cleared)) =>
        LET r == IF Clicked
                 THEN HandleClickDate(pre.selectedKeys, pre.lastClickedKey,
                                      selectionSettings, selectableKeys,
                                      ResolvedTarget, lastEvent.key, lastEvent.ev)
                 ELSE ClearSelection(ResolvedTarget)
        IN  /\ selectedKeys = r.selectedKeys
            /\ lastClickedKey = r.lastClickedKey

\* C5: a dataset update sends the host nothing, and with no filter target
\* a click or a clear sends the host nothing either.
C5_NoEmissionWithoutTarget ==
    (Updated \/ filterTarget = NoTarget) => hostCalls = NoCalls

C5_Witness ==
    /\ Clicked
    /\ filterTarget = NoTarget
    /\ selectedKeys # pre.selectedKeys
    /\ hostCalls = NoCalls

\* C6 as claimed: the request of a range or multi click is sent with merge
\* mode and the request of a single-select click with replace mode.
C6_ModeFollowsAdditive ==
    (Clicked /\ hostCalls # NoCalls) =>
        hostCalls[1].action =
            (IF ClickBranch = "single" THEN "replace" ELSE "merge")

\* C6 as amended: every request of a click, the single branch included, is
\* one "In" filter sent with merge mode; the single branch replaces through
\* the value list, which is the clicked key alone.
C6_ModeAlwaysMerge ==
    (Clicked /\ hostCalls # NoCalls) =>
        /\ Len(hostCalls) = 1
        /\ hostCalls[1].action = "merge"
        /\ hostCalls[1].filter.operator = "In"
        /\ ClickBranch = "single"
             => hostCalls[1].filter.values = {lastEvent.key}

C6_Witness ==
    /\ Clicked
    /\ ClickBranch = "single"
    /\ pre.selectedKeys \ {lastEvent.key} # {}
    /\ hostCalls = <<HostCall(InFilter(filterTarget, {lastEvent.key}), "merge")>>

\* C7: a click taking the single branch leaves the selection the singleton
\* of the clicked key.
C7_SingleSelectReplaces ==
    (Clicked /\ ClickBranch = "single") => selectedKeys = {lastEvent.key}

C7_Witness ==
    /\ Clicked
    /\ ClickBranch = "single"
    /\ Cardinality(pre.selectedKeys \ {lastEvent.key}) >= 2
    /\ selectedKeys = {lastEvent.key}

\* C8: a click taking the multi branch removes the key if it was selected
\* and adds it otherwise, leaving the other keys; a second such click on
\* the same key right after restores the selection before the first.
C8_MultiToggle ==
    [][(lastEvent'.op = "click"
          /\ Branch(selectionSettings, lastEvent'.ev, lastClickedKey) = "multi")
        => /\ selectedKeys' = Toggle(selectedKeys, lastEvent'.key)
           /\ (Clicked /\ ClickBranch = "multi" /\ lastEvent.key = lastEvent'.key)
                => selectedKeys' = pre.selectedKeys]_vars

\* the second of two ctrl-clicks on a key: the first removed it
C8_Witness ==
    /\ Clicked
    /\ ClickBranch = "multi"
    /\ pre.lastClickedKey = lastEvent.key
    /\ lastEvent.key \notin pre.selectedKeys
    /\ pre.selectedKeys # {}
    /\ filterTarget # NoTarget
    /\ selectedKeys = pre.selectedKeys \cup {lastEvent.key}

\* C9: clear leaves the selection empty and the anchor null, and with a
\* filter target its one host request removes the filter.
C9_ClearSemantics ==
    Cleared =>
        /\ selectedKeys = {}
        /\ lastClickedKey = Null
        /\ filterTarget # NoTarget
             => hostCalls = <<HostCall(NullFilter, "remove")>>

C9_Witness ==
    /\ Cleared
    /\ pre.selectedKeys # {}
    /\ pre.lastClickedKey # Null
    /\ filterTarget # NoTarget
    /\ hostCalls = <<HostCall(NullFilter, "remove")>>

\* C10: no host request is an "In" filter with an empty value list.
C10_NoEmptyInFilter ==
    \A i \in DOMAIN hostCalls :
        hostCalls[i].filter.operator = "In" => hostCalls[i].filter.values # {}

\* C11: handleClickDate given a key outside selectableKeys changes neither
\* selectedKeys nor lastClickedKey and sends the host nothing.
C11_RejectsNonSelectable ==
    (Clicked /\ lastEvent.key \notin selectableKeys) =>
        /\ selectedKeys = pre.selectedKeys
        /\ lastClickedKey = pre.lastClickedKey
        /\ hostCalls = NoCalls

\* C12: after a click, whatever its branch, the anchor is the clicked key.
C12_AnchorIsClickedKey == Clicked => lastClickedKey = lastEvent.key

\* a range click below its anchor, then one above: the anchor follows
C12_Witness ==
    /\ Clicked
    /\ ClickBranch = "range"
    /\ pre.lastClickedKey # Null
    /\ lastEvent.key > pre.lastClickedKey
    /\ Cardinality(selectedKeys) >= 2
    /\ lastClickedKey = lastEvent.key

\* the view machine alone: the header's buttons, the month and year cells,
\* an update with no dataset, and shiftMonth and shiftYear applied to every
\* delta of Deltas
Deltas == (0 - MaxDelta)..MaxDelta

NextNav ==
    \/ Update(DataView(NoSelObject, NoCategories))
    \/ TitleClick
    \/ ModeBtnClick
    \/ PrevClick
    \/ NextClick
    \/ \E m \in 0..11 : MonthCellClick(m)
    \/ \E i \in 0..11 : YearCellClick(i)
    \/ \E delta \in Deltas : CallShiftMonth(delta)
    \/ \E delta \in Deltas : CallShiftYear(delta)

SpecNav == Init /\ [][NextNav]_vars

Navigated == lastEvent.op \in {"prev", "next", "shiftMonth", "shiftYear"}

\* C13: a step of shiftMonth or shiftYear changes the view cursor only:
\* selection, anchor, selectable set, bounds, filter target, settings and
\* view mode stay, and the host is sent nothing.
C13_NavigationFrame ==
    [][lastEvent'.op \in {"prev", "next", "shiftMonth", "shiftYear"}
        => /\ UNCHANGED <<selectedKeys, lastClickedKey, selectableKeys,
                          minDataKey, maxDataKey, filterTarget,
                          selectionSettings, viewMode>>
           /\ hostCalls' = NoCalls]_vars

C13_Witness ==
    /\ lastEvent.op = "prev"
    /\ lastEvent.arg = 0 - 12
    /\ cursorYear = Today.year - 12
    /\ selectedKeys # {}
    /\ lastClickedKey # Null
    /\ filterTarget # NoTarget

MonthIndex(y, m) == y * 12 + m

\* C17: the cursor month is always in 0..11; shiftMonth(delta) moves the
\* month count year*12 + month by delta, and shiftYear(delta) moves the year
\* by delta and leaves the month.
C17_MonthNormalization ==
    /\ [](cursorMonth \in 0..11)
    /\ [][/\ lastEvent'.op = "shiftMonth"
             => MonthIndex(cursorYear', cursorMonth')
                  = MonthIndex(cursorYear, cursorMonth) + lastEvent'.arg
          /\ lastEvent'.op = "shiftYear"
             => /\ cursorYear' = cursorYear + lastEvent'.arg
                /\ cursorMonth' = cursorMonth]_vars

C17_Witness ==
    /\ lastEvent.op = "shiftMonth"
    /\ lastEvent.arg = 0 - 13
    /\ cursorMonth = 11
    /\ cursorYear = Today.year - 2

\* the loading machine: dataset updates alone, over columns of blank, junk
\* and Date rows in any order (two of them on the same day) and over every
\* short queryName
LoadValues ==
    {NullValue, JunkValue, DateValue(DayKey(0) + TimeOfDay),
     DateValue(DayKey(1)), DateValue(DayKey(1) + TimeOfDay)}

LoadColumns == UNION {[1..n -> LoadValues] : n \in 0..MaxValues}

LoadQueryNames ==
    {NotAString} \cup UNION {[1..n -> {"T", "."}] : n \in 0..MaxQueryName}

LoadDataViews ==
    {DataView(NoSelObject, NoCategories)}
    \cup {DataView(NoSelObject, Category(<<"T", ".", "d">>, vs)) :
            vs \in LoadColumns}
    \cup {DataView(NoSelObject,
                   Category(qn, <<DateValue(DayKey(0) + TimeOfDay)>>)) :
            qn \in LoadQueryNames}

NextLoad == \E dv \in LoadDataViews : Update(dv)

SpecLoad == Init /\ [][NextLoad]_vars

\* C14: minDataKey and maxDataKey are both null when the selectable set
\* is empty, and otherwise are its least and greatest members.
C14_BoundsInvariant ==
    IF selectableKeys = {}
    THEN minDataKey = Null /\ maxDataKey = Null
    ELSE /\ minDataKey \in selectableKeys
         /\ maxDataKey \in selectableKeys
         /\ \A k \in selectableKeys : minDataKey <= k /\ k <= maxDataKey

\* a column whose dates come in descending order
C14_Witness ==
    /\ Updated
    /\ Len(category.values) = 3
    /\ category.values[1].kind = "date"
    /\ category.values[3].kind = "date"
    /\ category.values[1].t > category.values[3].t
    /\ minDataKey = atUTC(category.values[3].t)
    /\ maxDataKey = atUTC(category.values[1].t)
    /\ minDataKey < maxDataKey

\* the keys of the Date rows of a category column
ParsedKeys(cat) ==
    {atUTC(cat.values[i].t) :
        i \in {j \in 1..Len(cat.values) : cat.values[j].kind = "date"}}

\* C15: the selectable set and its bounds are those of the last update's
\* column alone, so an update with the dataset already loaded changes none
\* of them.
C15_WholesaleRebuild ==
    /\ [](/\ selectableKeys = ParsedKeys(category)
          /\ \A k \in selectableKeys : minDataKey <= k /\ k <= maxDataKey
          /\ selectableKeys # {}
               => minDataKey \in selectableKeys /\ maxDataKey \in selectableKeys)
    /\ [][(lastEvent'.op = "update" /\ category' = category)
            => UNCHANGED <<selectableKeys, minDataKey, maxDataKey>>]_vars

\* a column of a blank row, a junk row and one Date
C15_Witness ==
    /\ Updated
    /\ Len(category.values) = 3
    /\ Cardinality(ParsedKeys(category)) = 1
    /\ selectableKeys = ParsedKeys(category)
    /\ minDataKey = maxDataKey

IsString(qn) == qn # NotAString

HasDot(qn) == \E i \in 1..Len(qn) : qn[i] = "."

\* the parts of qn before and after its last '.'
SplitAtLastDot(qn) ==
    LET i == CHOOSE k \in 1..Len(qn) :
                 qn[k] = "." /\ \A j \in (k + 1)..Len(qn) : qn[j] # "."
    IN  [table |-> SubSeq(qn, 1, i - 1), column |-> SubSeq(qn, i + 1, Len(qn))]

\* C16 as claimed: for a queryName string the target is null exactly when
\* the string has no '.', and is otherwise its split at the last '.'.
C16_TargetIffDot ==
    (category.present /\ IsString(category.queryName)) =>
        IF HasDot(category.queryName)
        THEN /\ filterTarget # NoTarget
             /\ filterTarget = SplitAtLastDot(category.queryName)
        ELSE filterTarget = NoTarget

\* C16 as amended: the target is null exactly when the string has no '.'
\* or its last '.' is its first character, and is otherwise its split at
\* the last '.'.
C16_TargetIffDotAfterStart ==
    (category.present /\ IsString(category.queryName)) =>
        IF HasDot(category.queryName)
             /\ SplitAtLastDot(category.queryName).table # <<>>
        THEN /\ filterTarget # NoTarget
             /\ filterTarget = SplitAtLastDot(category.queryName)
        ELSE filterTarget = NoTarget

C16_Witness ==
    /\ Updated
    /\ category.queryName = <<".", "T">>
    /\ filterTarget = NoTarget

\* C18: the view starts in day mode; a title or mode-button click moves
\* day to month, month to year, year to day; a year cell sets the cursor
\* year and month mode; a month cell sets the cursor month and day mode;
\* no other event changes the mode.
C18_ViewModeTransitions ==
    /\ viewMode = "day"
    /\ [][/\ lastEvent'.op \in {"title", "mode"}
             => viewMode' = (IF viewMode = "day" THEN "month"
                             ELSE IF viewMode = "month" THEN "year"
                             ELSE "day")
          /\ lastEvent'.op = "yearcell"
             => /\ viewMode = "year"
                /\ viewMode' = "month"
                /\ cursorYear' = lastEvent'.arg
                /\ cursorMonth' = cursorMonth
          /\ lastEvent'.op = "monthcell"
             => /\ viewMode = "month"
                /\ viewMode' = "day"
                /\ cursorMonth' = lastEvent'.arg
                /\ cursorYear' = cursorYear
          /\ lastEvent'.op \notin {"title", "mode", "yearcell", "monthcell"}
             => viewMode' = viewMode]_vars

\* a month cell picked in a year that a year cell had set
C18_Witness ==
    /\ lastEvent.op = "monthcell"
    /\ viewMode = "day"
    /\ cursorMonth = lastEvent.arg
    /\ cursorMonth # Today.month
    /\ cursorYear # Today.year

\* C19 as claimed: an update that leaves the selectable set empty leaves
\* the cursor at today.
C19_ResetWhenNoKeys ==
    (Updated /\ selectableKeys = {}) => Cursor = Today

\* C19 as amended: an update resets the cursor to today exactly when the
\* dataset has no category column; with a category column, whatever its
\* values, the cursor stays where it was.
C19_ResetWhenNoCategory ==
    [][lastEvent'.op = "update"
        => IF category'.present
           THEN UNCHANGED <<cursorYear, cursorMonth>>
           ELSE cursorYear' = Today.year /\ cursorMonth' = Today.month]_vars

C19_Witness ==
    /\ Updated
    /\ category.present
    /\ selectableKeys = {}
    /\ Cursor # Today

\* C20: a shift-click with no anchor, or with rangeSelect off, is no range
\* click: with ctrl or cmd and multiSelect on it toggles the key, otherwise
\* it replaces the selection by the key alone.
C20_ShiftWithoutAnchor ==
    (Clicked /\ lastEvent.ev.shiftKey
       /\ (pre.lastClickedKey = Null \/ ~selectionSettings.rangeSelect)) =>
        IF selectionSettings.multiSelect
             /\ (lastEvent.ev.ctrlKey \/ lastEvent.ev.metaKey)
        THEN selectedKeys = Toggle(pre.selectedKeys, lastEvent.key)
        ELSE /\ selectedKeys = {lastEvent.key}
             /\ filterTarget # NoTarget
                  => hostCalls[1].filter.values = {lastEvent.key}

\* a shift-click on a later day right after Clear, with an earlier day
\* selectable
C20_Witness ==
    /\ Clicked
    /\ lastEvent.ev = Mouse(FALSE, FALSE, TRUE)
    /\ selectionSettings.rangeSelect
    /\ pre.lastClickedKey = Null
    /\ \E k \in selectableKeys : k < lastEvent.key
    /\ filterTarget # NoTarget
    /\ selectedKeys = {lastEvent.key}

\* C23: every "In" filter a click sends to the host carries exactly the
\* selectedKeys held after the click, and its target is the filter target.
C23_FilterMirrorsSelection ==
    Clicked =>
        \A i \in 1..Len(hostCalls) :
            hostCalls[i].filter.operator = "In"
              => /\ hostCalls[i].filter.values = selectedKeys
                 /\ hostCalls[i].filter.target = filterTarget

\* a range click whose request also carries a key selected before it that
\* lies outside the range
C23_Witness ==
    /\ Clicked
    /\ ClickBranch = "range"
    /\ Len(hostCalls) = 1
    /\ hostCalls[1].filter.operator = "In"
    /\ hostCalls[1].filter.values = selectedKeys
    /\ \E k \in selectedKeys :
          k \notin SelectableBetween(pre.lastClickedKey, lastEvent.key)

\* the decimal digits of n, two and four of them
TwoDigits(n) == <<Digits[(n \div 10) + 1], Digits[(n % 10) + 1]>>

FourDigits(n) == TwoDigits(n \div 100) \o TwoDigits(n % 100)

\* the text YYYY-MM-DD of three numbers
IsoText(y, m, d) ==
    FourDigits(y) \o <<"-">> \o TwoDigits(m) \o <<"-">> \o TwoDigits(d)

\* the strings of a column: the first days of January 1970, one of them
\* with white space around it, texts of the 4-2-2 shape that name no
\* calendar date (day 32, day 0, month 13, month 0), and a text that is no
\* date at all
IsoTexts ==
    {IsoText(1970, 1, d + 1) : d \in 0..(MaxDay + 1)}
    \cup {<<" ">> \o IsoText(1970, 1, 2) \o <<" ">>}
    \cup {IsoText(1969, 12, 32), IsoText(1970, 1, 0),
          IsoText(1969, 13, 5), IsoText(1970, 0, 20)}
    \cup {<<"x">>}

IsoColumns ==
    UNION {[1..n -> {StringValue(t) : t \in IsoTexts}] : n \in 0..MaxIsoRows}

IsoDataViews ==
    {DataView(NoSelObject, NoCategories)}
    \cup {DataView(NoSelObject, Category(<<"T", ".", "d">>, vs)) :
            vs \in IsoColumns}

NextIso == \E dv \in IsoDataViews : Update(dv)

\* the loading machine over columns of strings
SpecIso == Init /\ [][NextIso]_vars

\* the year, month and day written in a string of the 4-2-2 shape
IsoFields(s) ==
    LET g == IsoExec(s)
    IN  [y |-> ParseInt(g[1]), m |-> ParseInt(g[2]), d |-> ParseInt(g[3])]

\* year y has a month m (1..12) with a day d
ValidCalendarDate(y, m, d) ==
    /\ m \in 1..12
    /\ d \in 1..DaysInMonth(y, m - 1)

\* the strings of a column that are of the 4-2-2 shape and name a calendar
\* date
ValidIsoRows(cat) ==
    {cat.values[i].s :
        i \in {j \in 1..Len(cat.values) :
                 /\ cat.values[j].kind = "string"
                 /\ IsoExec(cat.values[j].s) # <<>>
                 /\ LET f == IsoFields(cat.values[j].s)
                    IN  ValidCalendarDate(f.y, f.m, f.d)}}

\* C21: after an update with a column of strings the selectable keys are
\* those of the strings that name a calendar date; a string of the 4-2-2
\* shape whose month or day does not exist contributes no key.
C21_InvalidIsoSkipped ==
    (Updated /\ category.present) =>
        selectableKeys
          = {LET f == IsoFields(s) IN DateUTC(f.y, f.m - 1, f.d) :
                s \in ValidIsoRows(category)}

\* the days getISOWeek is applied to
WeekDays ==
    DaysBeforeYear(WeekFirstYear)..(DaysBeforeYear(WeekFirstYear + WeekYears) - 1)

\* a Visual about to compute the week number of some day
InitWeek ==
    /\ Constructed
    /\ weekLabel \in {[day |-> n, week |-> Null] : n \in WeekDays}

\* wn.textContent = String(this.getISOWeek(dt))
WeekNumber ==
    /\ weekLabel' = [day |-> weekLabel.day, week |-> GetISOWeek(weekLabel.day)]
    /\ UNCHANGED <<viewMode, cursorYear, cursorMonth, selectedKeys,
                   lastClickedKey, selectionSettings, selectableKeys,
                   minDataKey, maxDataKey, filterTarget, hostCalls, category,
                   lastEvent, pre>>

NextWeek == WeekNumber

\* getISOWeek applied to every day of the years chosen
SpecWeek == InitWeek /\ [][NextWeek]_vars

\* the Monday and the Thursday of the Monday-based week of day n
MondayOf(n) == n - ((UTCDay(n) + 6) % 7)

ThursdayOf(n) == MondayOf(n) + 3

\* the year that holds day n
YearHolding(n) ==
    CHOOSE y \in (WeekFirstYear - 1)..(WeekFirstYear + WeekYears) :
        UTCDayNumber(y, 0, 1) <= n /\ n < UTCDayNumber(y + 1, 0, 1)

\* the first Thursday of year y
FirstThursday(y) ==
    CHOOSE t \in UTCDayNumber(y, 0, 1)..(UTCDayNumber(y, 0, 1) + 6) :
        UTCDay(t) = 4

\* the ISO-8601 week number of day n
Iso8601Week(n) ==
    ((ThursdayOf(n) - FirstThursday(YearHolding(ThursdayOf(n)))) \div 7) + 1

\* C22: the number getISOWeek returns for a day is the number, within the
\* year holding the Thursday of the day's Monday-based week, of that week
\* counted from the week of the year's first Thursday; it is in 1..53, and
\* it is 52 for 2023-01-01.
C22_ISOWeekNumber ==
    weekLabel.week # Null =>
        /\ weekLabel.week = Iso8601Week(weekLabel.day)
        /\ weekLabel.week \in 1..53
        /\ weekLabel.day = UTCDayNumber(2023, 0, 1) => weekLabel.week = 52

\* the week number of Sunday 2023-01-01
C22_Witness ==
    /\ weekLabel.day = UTCDayNumber(2023, 0, 1)
    /\ UTCDay(weekLabel.day) = 0
    /\ weekLabel.week = 52

====
